---- MODULE Spec2Model ----
(***************************************************************************)
(* Model of the livemix audio source node (src/examples/node.c): the       *)
(* per-port buffer pool kept on an intrusive spa_list, the parameter       *)
(* negotiation handlers, the info emission and the process callback.       *)
(***************************************************************************)
EXTENDS Integers, Sequences, FiniteSets, TLC

(* ------------------------------------------------------------------ *)
(* Program constants                                                   *)
(* ------------------------------------------------------------------ *)
MAX_BUFFERS == 32
MAX_PORTS == 16
N_NODE_PARAMS == 4
N_PORT_PARAMS == 5
NODE_Format == 3
PORT_EnumFormat == 0
PORT_Meta == 1
PORT_IO == 2
PORT_Format == 3
PORT_Buffers == 4

(* (uint32_t)-1 in the library; only its being >= every buffer count is used *)
SPA_ID_INVALID == 2147483647

(* ------------------------------------------------------------------ *)
(* Bounds of the model                                                 *)
(* ------------------------------------------------------------------ *)
(* the host addresses ports 0 .. MaxPort-1 (and one invalid port id) *)
MaxPort == 1
(* slots of buffers[] the host uses: descriptor counts and ids 0 .. MaxBuf-1 *)
MaxBuf == 2
(* listeners the host registers *)
MaxListeners == 2
(* mappings of one buffer slot that are alive at a time *)
MaxMaps == 2

(* ------------------------------------------------------------------ *)
(* Bit sets: a mask or a flags word is the set of its set bit numbers  *)
(* ------------------------------------------------------------------ *)
SPA_PARAM_INFO_SERIAL == {0}
SPA_PARAM_INFO_READ == {1}
SPA_PARAM_INFO_WRITE == {2}
SPA_PARAM_INFO_READWRITE == {1, 2}
SPA_NODE_CHANGE_MASK_FLAGS == {0}
SPA_NODE_CHANGE_MASK_PROPS == {1}
SPA_NODE_CHANGE_MASK_PARAMS == {2}
SPA_PORT_CHANGE_MASK_FLAGS == {0}
SPA_PORT_CHANGE_MASK_PROPS == {2}
SPA_PORT_CHANGE_MASK_PARAMS == {3}

Xor(a, b) == (a \ b) \cup (b \ a)

(* SPA_PARAM_INFO(id, flags): a compound literal, every other field zero *)
SPA_PARAM_INFO(id, flags) == [id |-> id, flags |-> flags, user |-> 0]

(* ------------------------------------------------------------------ *)
(* spa_list: intrusive circular doubly linked list                     *)
(* ------------------------------------------------------------------ *)
(* the list head `empty` of a port; buffer i's link is node i *)
ListHead == -1
(* a link of the zero-initialised struct data that was never written *)
NULL == -2
Slots == 0 .. (MaxBuf - 1)
Nodes == Slots \cup {ListHead}

(* spa_list_init(&port->empty) *)
spa_list_init(lk) ==
    [lk EXCEPT !.next[ListHead] = ListHead, !.prev[ListHead] = ListHead]

(* spa_list_insert(list, elem): elem is put after list *)
spa_list_insert(lk, list, elem) ==
    LET l1 == [lk EXCEPT !.prev[elem] = list]
        l2 == [l1 EXCEPT !.next[elem] = l1.next[list]]
        l3 == [l2 EXCEPT !.next[list] = elem]
        l4 == [l3 EXCEPT !.prev[l3.next[elem]] = elem]
    IN l4

(* spa_list_append(list, item) = spa_list_insert((list)->prev, item) *)
spa_list_append(lk, elem) == spa_list_insert(lk, lk.prev[ListHead], elem)

(* spa_list_remove(elem) *)
spa_list_remove(lk, elem) ==
    LET l1 == [lk EXCEPT !.next[lk.prev[elem]] = lk.next[elem]]
        l2 == [l1 EXCEPT !.prev[l1.next[elem]] = l1.prev[elem]]
    IN l2

(* spa_list_is_empty(&p->empty) *)
spa_list_is_empty(lk) == lk.next[ListHead] = ListHead

(* spa_list_first(&p->empty, struct buffer, link) *)
spa_list_first(lk) == lk.next[ListHead]

(* What a traversal of the free list from its head sees (as             *)
(* spa_list_for_each does), cut after MaxBuf + 1 elements: a list that  *)
(* does not lead back to the head shows as a sequence longer than the   *)
(* pool.                                                                *)
RECURSIVE Walk(_, _, _)
Walk(lk, node, k) ==
    IF node = ListHead \/ node = NULL \/ k = 0 THEN <<>>
    ELSE <<node>> \o Walk(lk, lk.next[node], k - 1)

FreeList(p) == Walk(p.lk, p.lk.next[ListHead], MaxBuf + 1)

(* ------------------------------------------------------------------ *)
(* State                                                               *)
(* ------------------------------------------------------------------ *)
VARIABLES
    d,      \* struct data: the node, its parameter tables and its ports
    pc,     \* "running", or "crashed" once a handler has faulted
    last,   \* the last host call: operation, arguments and return value
    out,    \* the notifications and results the last host call emitted
    hist    \* history of the negotiation, kept for the properties only

vars == <<d, pc, last, out, hist>>

PortIds == 0 .. (MAX_PORTS - 1)

(* spa_zero(port->format): SPA_AUDIO_FORMAT_UNKNOWN is 0 *)
ZeroFormat == [format |-> "UNKNOWN", rate |-> 0, channels |-> 0]

(* the mailbox a port's io pointer refers to (host memory), or NULL *)
NoIo == [bound |-> FALSE, buffer_id |-> SPA_ID_INVALID, status |-> "NONE"]
IoIds == Slots \cup {SPA_ID_INVALID}

(* one port as main() sets it up *)
InitPort ==
    [format |-> ZeroFormat,
     change_mask |-> SPA_PORT_CHANGE_MASK_FLAGS \cup SPA_PORT_CHANGE_MASK_PROPS
                        \cup SPA_PORT_CHANGE_MASK_PARAMS,
     port_params |->
        (PORT_EnumFormat :> SPA_PARAM_INFO("EnumFormat", SPA_PARAM_INFO_READ)) @@
        (PORT_Meta :> SPA_PARAM_INFO("Meta", SPA_PARAM_INFO_READ)) @@
        (PORT_IO :> SPA_PARAM_INFO("IO", SPA_PARAM_INFO_READ)) @@
        (PORT_Format :> SPA_PARAM_INFO("Format", SPA_PARAM_INFO_WRITE)) @@
        (PORT_Buffers :> SPA_PARAM_INFO("Buffers", {})),
     n_params |-> N_PORT_PARAMS,
     n_buffers |-> 0,
     bufset |-> {},
     mapped |-> {},
     live |-> [i \in Slots |-> 0],
     lk |-> spa_list_init([next |-> [n \in Nodes |-> NULL],
                           prev |-> [n \in Nodes |-> NULL]]),
     io |-> NoIo,
     io_notify |-> FALSE,
     io_notify_size |-> 0]

(* struct data as main() leaves it before the main loop runs *)
InitData ==
    [change_mask_all |-> SPA_NODE_CHANGE_MASK_FLAGS \cup SPA_NODE_CHANGE_MASK_PROPS
                            \cup SPA_NODE_CHANGE_MASK_PARAMS,
     info_change_mask |-> SPA_NODE_CHANGE_MASK_FLAGS \cup SPA_NODE_CHANGE_MASK_PROPS
                            \cup SPA_NODE_CHANGE_MASK_PARAMS,
     params |->
        (0 :> SPA_PARAM_INFO("PropInfo", {})) @@
        (1 :> SPA_PARAM_INFO("Props", SPA_PARAM_INFO_WRITE)) @@
        (2 :> SPA_PARAM_INFO("EnumFormat", SPA_PARAM_INFO_READ)) @@
        (NODE_Format :> SPA_PARAM_INFO("Format", SPA_PARAM_INFO_WRITE)),
     n_params |-> N_NODE_PARAMS,
     port_change_mask_all |-> SPA_PORT_CHANGE_MASK_FLAGS \cup SPA_PORT_CHANGE_MASK_PROPS
                                \cup SPA_PORT_CHANGE_MASK_PARAMS,
     ports |-> [n \in PortIds |-> InitPort],
     n_ports |-> MAX_PORTS,
     hooks |-> {}]

(* the record of a host call: operation, port id, parameter or io id,   *)
(* count (n_buffers, buffer id, num or size; for process the id found in *)
(* the bound mailbox of port 0), start index, rejected                    *)
(* indexes of the filter, kind of the param payload, return value         *)
Call(op, port, id, n, start, rej, kind, ret) ==
    [op |-> op, port |-> port, id |-> id, n |-> n, start |-> start, rej |-> rej,
     kind |-> kind, ret |-> ret]
NoCall == Call("none", -1, "", -1, -1, {}, "", "")

ModelPorts == 0 .. (MaxPort - 1)

(* the descriptors of a table whose serial bit is set *)
SerialSet(params) ==
    {i \in DOMAIN params : (params[i].flags \cap SPA_PARAM_INFO_SERIAL) # {}}

(* History: per modelled port the phase of its format negotiation        *)
(* ("initial", "committed" after a port_set_param with a Format object,  *)
(* "cleared" after a later one with no payload) and the payload kinds of *)
(* the successful port_set_param(Format) calls since the last full       *)
(* emission, if any (the first two); the number of full emissions so far *)
(* (capped at 2), the serial bits the last one reported, and what both   *)
(* were at the full emission before it.                                  *)
InitHist ==
    [phase |-> [p \in ModelPorts |-> "initial"],
     muts |-> [p \in ModelPorts |-> <<>>],
     nfull |-> 0,
     node_serial |-> {},
     port_serial |-> [p \in ModelPorts |-> {}],
     prev_muts |-> [p \in ModelPorts |-> <<>>],
     prev_node_serial |-> {},
     prev_port_serial |-> [p \in ModelPorts |-> {}]]

Min(a, b) == IF a < b THEN a ELSE b

(* the params table a notification of kind ev (for port) carries in outs *)
ReportedParams(outs, ev, port) ==
    LET I == {i \in 1 .. Len(outs) : outs[i].ev = ev /\ outs[i].port = port}
    IN outs[CHOOSE i \in I : TRUE].params

IsReported(outs, ev, port) ==
    \E i \in 1 .. Len(outs) : outs[i].ev = ev /\ outs[i].port = port

HistSetParam(h, port, id, kind, ret) ==
    IF port \in ModelPorts /\ id = "Format" /\ ret = "0"
    THEN [h EXCEPT
            !.phase[port] = IF kind = "format" THEN "committed"
                            ELSE IF kind = "absent" /\ @ # "initial" THEN "cleared"
                            ELSE @,
            !.muts[port] = IF h.nfull > 0 /\ Len(@) < 2 THEN Append(@, kind) ELSE @]
    ELSE h

HistAddListener(h, outs) ==
    [h EXCEPT
        !.prev_muts = h.muts,
        !.prev_node_serial = h.node_serial,
        !.prev_port_serial = h.port_serial,
        !.muts = [p \in ModelPorts |-> <<>>],
        !.nfull = Min(@ + 1, 2),
        !.node_serial = IF IsReported(outs, "info", -1)
                        THEN SerialSet(ReportedParams(outs, "info", -1)) ELSE {},
        !.port_serial = [p \in ModelPorts |->
                            IF IsReported(outs, "port_info", p)
                            THEN SerialSet(ReportedParams(outs, "port_info", p))
                            ELSE {}]]

Init ==
    /\ d = InitData
    /\ pc = "running"
    /\ last = NoCall
    /\ out = <<>>
    /\ hist = InitHist

(* ------------------------------------------------------------------ *)
(* Buffer pool                                                         *)
(* ------------------------------------------------------------------ *)
(* what a buffer descriptor's datas[0] holds:                          *)
(*   "data"       data != NULL                                         *)
(*   "memfd_ok"   data = NULL, type MemFd or DmaBuf, mmap succeeds      *)
(*   "memfd_fail" data = NULL, type MemFd or DmaBuf, mmap fails         *)
(*   "invalid"    data = NULL, any other type                          *)
DescKinds == {"data", "memfd_ok", "memfd_fail", "invalid"}

(* one iteration of the loop of impl_port_use_buffers that binds slot i: *)
(* b->mapped is set, a successful mmap adds a mapping of the process     *)
(* (live[i] counts the mappings made for slot i that are still alive;     *)
(* nothing in the program unmaps one), then                               *)
(* b->id = i; b->buffer = buffers[i]; spa_list_append(&p->empty, ...)     *)
use_buffers_bind(p, i, ismapped) ==
    [p EXCEPT !.bufset = @ \cup {i},
              !.mapped = IF ismapped THEN @ \cup {i} ELSE @ \ {i},
              !.live[i] = IF ismapped THEN @ + 1 ELSE @,
              !.lk = spa_list_append(@, i)]

(* the loop of impl_port_use_buffers from index i on; descs is 1-based *)
RECURSIVE use_buffers_loop(_, _, _)
use_buffers_loop(p, descs, i) ==
    IF i >= Len(descs)
    THEN [p |-> [p EXCEPT !.n_buffers = Len(descs)], ret |-> "0"]
    ELSE IF descs[i + 1] = "data"
    THEN use_buffers_loop(use_buffers_bind(p, i, FALSE), descs, i + 1)
    ELSE IF descs[i + 1] = "memfd_ok"
    THEN use_buffers_loop(use_buffers_bind(p, i, TRUE), descs, i + 1)
    ELSE IF descs[i + 1] = "memfd_fail"
    THEN [p |-> p, ret |-> "-errno"]
    ELSE [p |-> p, ret |-> "-EINVAL"]

(* a variant of the function below without the test of n_buffers        *)
(* against MAX_BUFFERS                                                  *)
impl_port_use_buffers_no_capacity(dd, port_id, descs, n) ==
    IF port_id >= dd.n_ports THEN [d |-> dd, ret |-> "-EINVAL"]
    ELSE LET r == use_buffers_loop(dd.ports[port_id], descs, 0)
         IN [d |-> [dd EXCEPT !.ports[port_id] = r.p], ret |-> r.ret]

(* impl_port_use_buffers: n is the n_buffers argument, descs the        *)
(* descriptors (read only when n <= MAX_BUFFERS)                        *)
impl_port_use_buffers(dd, port_id, descs, n) ==
    IF port_id >= dd.n_ports THEN [d |-> dd, ret |-> "-EINVAL"]
    ELSE IF n > MAX_BUFFERS THEN [d |-> dd, ret |-> "-ENOSPC"]
    ELSE LET r == use_buffers_loop(dd.ports[port_id], descs, 0)
         IN [d |-> [dd EXCEPT !.ports[port_id] = r.p], ret |-> r.ret]

(* port_reuse_buffer *)
port_reuse_buffer(p, id) ==
    [p EXCEPT !.lk = spa_list_append(@, id)]

(* a variant of the function below without the test of the port id: the *)
(* port addressed is the id taken modulo n_ports                         *)
impl_port_reuse_buffer_unchecked(dd, port_id, buffer_id) ==
    [d |-> [dd EXCEPT !.ports[port_id % dd.n_ports] = port_reuse_buffer(@, buffer_id)],
     ret |-> "0"]

(* impl_port_reuse_buffer *)
impl_port_reuse_buffer(dd, port_id, buffer_id) ==
    IF port_id >= dd.n_ports THEN [d |-> dd, ret |-> "-EINVAL"]
    ELSE [d |-> [dd EXCEPT !.ports[port_id] = port_reuse_buffer(@, buffer_id)],
          ret |-> "0"]

(* io ids the host passes; "Invalid" (SPA_IO_Invalid) is one no handler *)
(* knows                                                                *)
IoKinds == {"Buffers", "Notify", "Invalid"}

(* impl_set_io (node level): logs and returns 0 *)
impl_set_io(dd, id, data, size) == [d |-> dd, ret |-> "0"]

(* a variant of the function below whose default case succeeds         *)
impl_port_set_io_default_ok(dd, port_id, id, data, size) ==
    IF port_id >= dd.n_ports THEN [d |-> dd, ret |-> "-EINVAL"]
    ELSE IF id = "Buffers"
    THEN [d |-> [dd EXCEPT !.ports[port_id].io = data], ret |-> "0"]
    ELSE IF id = "Notify"
    THEN [d |-> [dd EXCEPT !.ports[port_id].io_notify = data.bound,
                           !.ports[port_id].io_notify_size = size],
          ret |-> "0"]
    ELSE [d |-> dd, ret |-> "0"]

(* impl_port_set_io: data is the mailbox bound (bound = FALSE: NULL)    *)
impl_port_set_io(dd, port_id, id, data, size) ==
    IF port_id >= dd.n_ports THEN [d |-> dd, ret |-> "-EINVAL"]
    ELSE IF id = "Buffers"
    THEN [d |-> [dd EXCEPT !.ports[port_id].io = data], ret |-> "0"]
    ELSE IF id = "Notify"
    THEN [d |-> [dd EXCEPT !.ports[port_id].io_notify = data.bound,
                           !.ports[port_id].io_notify_size = size],
          ret |-> "0"]
    ELSE [d |-> dd, ret |-> "-ENOENT"]

(* ------------------------------------------------------------------ *)
(* Info emission                                                       *)
(* ------------------------------------------------------------------ *)
(* a notification handed to the hooks registered at that moment *)
Notification(ev, port, mask, params, to) ==
    [ev |-> ev, port |-> port, index |-> -1, what |-> "", mask |-> mask,
     params |-> params, to |-> to]

(* a spa_result_node_params handed to the hooks: candidate `what` at `index` *)
Result(port, index, what, to) ==
    [ev |-> "result", port |-> port, index |-> index, what |-> what, mask |-> {},
     params |-> <<>>, to |-> to]

(* a variant of the loop below that flips the serial bit of every       *)
(* descriptor, whether or not its user count was raised                 *)
toggle_serial_always(params, n_params) ==
    [i \in DOMAIN params |->
        IF i < n_params
        THEN [params[i] EXCEPT !.flags = Xor(@, SPA_PARAM_INFO_SERIAL), !.user = 0]
        ELSE params[i]]

(* a variant of the loop below whose test of the user count is inverted  *)
toggle_serial_inverted(params, n_params) ==
    [i \in DOMAIN params |->
        IF i < n_params /\ ~(params[i].user > 0)
        THEN [params[i] EXCEPT !.flags = Xor(@, SPA_PARAM_INFO_SERIAL), !.user = 0]
        ELSE params[i]]

(* the loop over a parameter table in emit_node_info / emit_port_info:  *)
(* a descriptor with user > 0 gets its serial bit flipped and user = 0  *)
toggle_serial(params, n_params) ==
    [i \in DOMAIN params |->
        IF i < n_params /\ params[i].user > 0
        THEN [params[i] EXCEPT !.flags = Xor(@, SPA_PARAM_INFO_SERIAL), !.user = 0]
        ELSE params[i]]

(* a variant of the function below that puts the mask it found back     *)
(* after a partial emission as well                                     *)
emit_node_info_restore(dd, full) ==
    LET old == dd.info_change_mask
        mask == IF full THEN dd.change_mask_all ELSE dd.info_change_mask
        params == IF mask # {} /\ (mask \cap SPA_NODE_CHANGE_MASK_PARAMS) # {}
                  THEN toggle_serial(dd.params, dd.n_params)
                  ELSE dd.params
    IN [d |-> [dd EXCEPT !.params = params, !.info_change_mask = old],
        out |-> IF mask # {}
                THEN <<Notification("info", -1, mask, params, dd.hooks)>>
                ELSE <<>>]

(* emit_node_info *)
emit_node_info(dd, full) ==
    LET old == IF full THEN dd.info_change_mask ELSE {}
        mask == IF full THEN dd.change_mask_all ELSE dd.info_change_mask
        params == IF mask # {} /\ (mask \cap SPA_NODE_CHANGE_MASK_PARAMS) # {}
                  THEN toggle_serial(dd.params, dd.n_params)
                  ELSE dd.params
    IN [d |-> [dd EXCEPT !.params = params, !.info_change_mask = old],
        out |-> IF mask # {}
                THEN <<Notification("info", -1, mask, params, dd.hooks)>>
                ELSE <<>>]

(* a variant of the body below that leaves the mask it emitted in the    *)
(* port's stored mask                                                    *)
emit_port_info_one_keep_emitted(dd, n, full) ==
    LET port == dd.ports[n]
        mask == IF full THEN dd.port_change_mask_all ELSE port.change_mask
        params == IF mask # {} /\ (mask \cap SPA_PORT_CHANGE_MASK_PARAMS) # {}
                  THEN toggle_serial(port.port_params, port.n_params)
                  ELSE port.port_params
    IN [d |-> [dd EXCEPT !.ports[n].port_params = params,
                         !.ports[n].change_mask = IF full THEN mask ELSE {}],
        out |-> IF mask # {}
                THEN <<Notification("port_info", n, mask, params, dd.hooks)>>
                ELSE <<>>]

(* the body of the loop of emit_port_info for port n *)
emit_port_info_one(dd, n, full) ==
    LET port == dd.ports[n]
        old == IF full THEN port.change_mask ELSE {}
        mask == IF full THEN dd.port_change_mask_all ELSE port.change_mask
        params == IF mask # {} /\ (mask \cap SPA_PORT_CHANGE_MASK_PARAMS) # {}
                  THEN toggle_serial(port.port_params, port.n_params)
                  ELSE port.port_params
    IN [d |-> [dd EXCEPT !.ports[n].port_params = params,
                         !.ports[n].change_mask = old],
        out |-> IF mask # {}
                THEN <<Notification("port_info", n, mask, params, dd.hooks)>>
                ELSE <<>>]

(* emit_port_info: for (n = 0; n < d->n_ports; n++) *)
RECURSIVE emit_port_info_from(_, _, _)
emit_port_info_from(dd, n, full) ==
    IF n >= dd.n_ports THEN [d |-> dd, out |-> <<>>]
    ELSE LET one == emit_port_info_one(dd, n, full)
             rest == emit_port_info_from(one.d, n + 1, full)
         IN [d |-> rest.d, out |-> one.out \o rest.out]

(* a variant of the function below whose loop starts at port 1 *)
emit_port_info_skip_first(dd, full) == emit_port_info_from(dd, 1, full)

emit_port_info(dd, full) == emit_port_info_from(dd, 0, full)

(* a variant of the function below that emits to the whole hook list,    *)
(* the new listener appended, without isolating it                       *)
impl_add_listener_no_isolate(dd, listener) ==
    LET all == [dd EXCEPT !.hooks = @ \cup {listener}]
        e1 == emit_node_info(all, TRUE)
        e2 == emit_port_info(e1.d, TRUE)
    IN [d |-> e2.d, out |-> e1.out \o e2.out, ret |-> "0"]

(* impl_add_listener: the hook list is isolated to the new listener      *)
(* while both infos are emitted in full, then joined with the saved one *)
impl_add_listener(dd, listener) ==
    LET save == dd.hooks
        iso == [dd EXCEPT !.hooks = {listener}]
        e1 == emit_node_info(iso, TRUE)
        e2 == emit_port_info(e1.d, TRUE)
    IN [d |-> [e2.d EXCEPT !.hooks = @ \cup save],
        out |-> e1.out \o e2.out,
        ret |-> "0"]

(* impl_set_param (node level): only emits *)
impl_set_param(dd) ==
    LET e1 == emit_node_info(dd, FALSE)
        e2 == emit_port_info(e1.d, FALSE)
    IN [d |-> e2.d, out |-> e1.out \o e2.out, ret |-> "0"]

(* ------------------------------------------------------------------ *)
(* Negotiation: port_enum_params                                       *)
(* ------------------------------------------------------------------ *)
(* parameter kinds the host passes; "Props" is one the port does not know *)
ParamIds == {"EnumFormat", "Format", "Buffers", "Meta", "IO", "Props"}

(* a variant of the switch below whose IO case has the Buffers candidate *)
(* only                                                                 *)
enum_candidate_io_one(p, id, index) ==
    IF id = "EnumFormat"
    THEN (IF index = 0 THEN "EnumFormat" ELSE "return 0")
    ELSE IF id = "Format"
    THEN (IF index = 0
          THEN (IF p.format.format = "UNKNOWN" THEN "return 0" ELSE "Format")
          ELSE "return 0")
    ELSE IF id = "Buffers"
    THEN (IF index = 0 THEN "Buffers" ELSE "return 0")
    ELSE IF id = "Meta"
    THEN (IF index = 0 THEN "Meta:Header" ELSE "return 0")
    ELSE IF id = "IO"
    THEN (IF index = 0 THEN "IO:Buffers" ELSE "return 0")
    ELSE "-ENOENT"

(* a variant of the switch below whose EnumFormat case offers its        *)
(* candidate only while the port has no format                          *)
enum_candidate_unset_only(p, id, index) ==
    IF id = "EnumFormat"
    THEN (IF index = 0 /\ p.format.format = "UNKNOWN" THEN "EnumFormat" ELSE "return 0")
    ELSE IF id = "Format"
    THEN (IF index = 0
          THEN (IF p.format.format = "UNKNOWN" THEN "return 0" ELSE "Format")
          ELSE "return 0")
    ELSE IF id = "Buffers"
    THEN (IF index = 0 THEN "Buffers" ELSE "return 0")
    ELSE IF id = "Meta"
    THEN (IF index = 0 THEN "Meta:Header" ELSE "return 0")
    ELSE IF id = "IO"
    THEN (IF index = 0 THEN "IO:Buffers"
          ELSE IF index = 1 THEN "IO:Notify"
          ELSE "return 0")
    ELSE "-ENOENT"

(* the switch (id) / switch (result.index) of impl_port_enum_params:     *)
(* the candidate built, "return 0" where the inner switch returns 0,     *)
(* "-ENOENT" for the outer default                                       *)
enum_candidate(p, id, index) ==
    IF id = "EnumFormat"
    THEN (IF index = 0 THEN "EnumFormat" ELSE "return 0")
    ELSE IF id = "Format"
    THEN (IF index = 0
          THEN (IF p.format.format = "UNKNOWN" THEN "return 0" ELSE "Format")
          ELSE "return 0")
    ELSE IF id = "Buffers"
    THEN (IF index = 0 THEN "Buffers" ELSE "return 0")
    ELSE IF id = "Meta"
    THEN (IF index = 0 THEN "Meta:Header" ELSE "return 0")
    ELSE IF id = "IO"
    THEN (IF index = 0 THEN "IO:Buffers"
          ELSE IF index = 1 THEN "IO:Notify"
          ELSE "return 0")
    ELSE "-ENOENT"

(* a variant of the loop below that counts a candidate the filter       *)
(* refuses as emitted                                                   *)
RECURSIVE enum_loop_reject_counts(_, _, _, _, _, _, _, _)
enum_loop_reject_counts(p, port_id, id, next, num, emitted, rejected, hooks) ==
    IF emitted >= num THEN [out |-> <<>>, ret |-> "0"]
    ELSE LET index == next
             c == enum_candidate(p, id, index)
         IN IF c = "-ENOENT" THEN [out |-> <<>>, ret |-> "-ENOENT"]
            ELSE IF c = "return 0" THEN [out |-> <<>>, ret |-> "0"]
            ELSE IF index \in rejected
            THEN enum_loop_reject_counts(p, port_id, id, next + 1, num, emitted + 1,
                                         rejected, hooks)
            ELSE LET rest == enum_loop_reject_counts(p, port_id, id, next + 1, num,
                                                     emitted + 1, rejected, hooks)
                 IN [out |-> <<Result(port_id, index, c, hooks)>> \o rest.out,
                     ret |-> rest.ret]

(* the while (true) loop of impl_port_enum_params; `rejected` is the set *)
(* of indexes whose candidate spa_pod_filter refuses (empty for a NULL   *)
(* filter)                                                               *)
RECURSIVE enum_loop(_, _, _, _, _, _, _, _)
enum_loop(p, port_id, id, next, num, emitted, rejected, hooks) ==
    IF emitted >= num THEN [out |-> <<>>, ret |-> "0"]
    ELSE LET index == next
             c == enum_candidate(p, id, index)
         IN IF c = "-ENOENT" THEN [out |-> <<>>, ret |-> "-ENOENT"]
            ELSE IF c = "return 0" THEN [out |-> <<>>, ret |-> "0"]
            ELSE IF index \in rejected
            THEN enum_loop(p, port_id, id, next + 1, num, emitted, rejected, hooks)
            ELSE LET rest == enum_loop(p, port_id, id, next + 1, num, emitted + 1,
                                       rejected, hooks)
                 IN [out |-> <<Result(port_id, index, c, hooks)>> \o rest.out,
                     ret |-> rest.ret]

(* impl_port_enum_params *)
impl_port_enum_params(dd, port_id, id, start, num, rejected) ==
    IF port_id >= dd.n_ports THEN [out |-> <<>>, ret |-> "-EINVAL"]
    ELSE enum_loop(dd.ports[port_id], port_id, id, start, num, 0, rejected, dd.hooks)

(* ------------------------------------------------------------------ *)
(* Negotiation: port_set_param                                         *)
(* ------------------------------------------------------------------ *)
(* the param argument: NULL ("absent"), a Format object, or a pod that   *)
(* is no Format object                                                   *)
NoParam == [kind |-> "absent", fmt |-> ZeroFormat]
Payloads ==
    {[kind |-> "format", fmt |-> [format |-> "F32", rate |-> 44100, channels |-> 2]],
     [kind |-> "other", fmt |-> ZeroFormat]}

(* spa_format_audio_raw_parse(param, &p->format): the fields of a Format *)
(* object are stored; any other pod fails to parse and stores nothing    *)
(* (the return value is not looked at)                                   *)
spa_format_audio_raw_parse(param, info) ==
    IF param.kind = "format" THEN param.fmt ELSE info

(* d->params[PORT_Buffers] = SPA_PARAM_INFO(SPA_PARAM_Buffers, flags):   *)
(* index 4 is one past the end of d->params[N_NODE_PARAMS], so the store *)
(* is undefined. "adjacent": the 32 bytes land on the members that       *)
(* follow params[] in struct data: port_change_mask_all takes id and     *)
(* flags (SPA_PARAM_Buffers = 5 in the low word, flags in the high       *)
(* word), and the first members of ports[0].format take the zero rest.   *)
(* "none": the store has no effect on any member.                        *)
OobOutcomes == {"adjacent", "none"}
params_store_past_end(dd, flags, oob) ==
    IF oob = "adjacent"
    THEN [dd EXCEPT !.port_change_mask_all = {0, 2} \cup {b + 32 : b \in flags},
                    !.ports[0].format = ZeroFormat]
    ELSE dd

(* the two descriptor stores of case SPA_PARAM_Format: the table written *)
(* is d->params, indexed with the PORT_ indexes                          *)
set_format_infos(dd, port_id, fflags, bflags, oob) ==
    params_store_past_end(
        [dd EXCEPT !.params[PORT_Format] = SPA_PARAM_INFO("Format", fflags)],
        bflags, oob)

(* a variant of the function below whose default case leaves the switch  *)
(* instead of returning                                                  *)
impl_port_set_param_default_break(dd, port_id, id, param, oob) ==
    IF port_id >= dd.n_ports THEN [d |-> dd, out |-> <<>>, ret |-> "-EINVAL"]
    ELSE LET d1 == IF id # "Format" THEN dd
                   ELSE IF param.kind # "absent"
                   THEN set_format_infos(
                            [dd EXCEPT !.ports[port_id].format =
                                          spa_format_audio_raw_parse(param, @)],
                            port_id, SPA_PARAM_INFO_READWRITE, SPA_PARAM_INFO_READ, oob)
                   ELSE set_format_infos(
                            [dd EXCEPT !.ports[port_id].format = ZeroFormat],
                            port_id, SPA_PARAM_INFO_WRITE, {}, oob)
             d2 == [d1 EXCEPT !.ports[port_id].change_mask = SPA_PORT_CHANGE_MASK_PARAMS]
             e1 == emit_node_info(d2, FALSE)
             e2 == emit_port_info(e1.d, FALSE)
         IN [d |-> e2.d, out |-> e1.out \o e2.out, ret |-> "0"]

(* impl_port_set_param *)
impl_port_set_param(dd, port_id, id, param, oob) ==
    IF port_id >= dd.n_ports THEN [d |-> dd, out |-> <<>>, ret |-> "-EINVAL"]
    ELSE IF id = "Format"
    THEN LET d1 == IF param.kind # "absent"
                   THEN set_format_infos(
                            [dd EXCEPT !.ports[port_id].format =
                                          spa_format_audio_raw_parse(param, @)],
                            port_id, SPA_PARAM_INFO_READWRITE, SPA_PARAM_INFO_READ, oob)
                   ELSE set_format_infos(
                            [dd EXCEPT !.ports[port_id].format = ZeroFormat],
                            port_id, SPA_PARAM_INFO_WRITE, {}, oob)
             d2 == [d1 EXCEPT !.ports[port_id].change_mask = SPA_PORT_CHANGE_MASK_PARAMS]
             e1 == emit_node_info(d2, FALSE)
             e2 == emit_port_info(e1.d, FALSE)
         IN [d |-> e2.d, out |-> e1.out \o e2.out, ret |-> "0"]
    ELSE [d |-> dd, out |-> <<>>, ret |-> "-ENOENT"]

(* ------------------------------------------------------------------ *)
(* process                                                             *)
(* ------------------------------------------------------------------ *)
(* io->buffer_id as impl_node_process reads it: the mailbox's value, or, *)
(* through a NULL io (undefined), any value                             *)
io_buffer_id_read(p) == IF p.io.bound THEN {p.io.buffer_id} ELSE IoIds

(* b->id of slot b: i once impl_port_use_buffers has set it, else the    *)
(* zero of the zero-initialised struct                                   *)
buffer_id(p, b) == IF b \in p.bufset THEN b ELSE 0

(* a variant of the step below that leaves the id in the mailbox        *)
process_recycle_keep_id(p, bid) ==
    IF bid < p.n_buffers THEN port_reuse_buffer(p, bid) ELSE p

(* lines 610-615: recycle the buffer the mailbox names; the store to     *)
(* io->buffer_id goes to the mailbox (nowhere when io is NULL)           *)
process_recycle(p, bid) ==
    IF bid < p.n_buffers
    THEN [port_reuse_buffer(p, bid) EXCEPT
            !.io.buffer_id = IF p.io.bound THEN SPA_ID_INVALID ELSE @]
    ELSE p

(* lines 634-641: publish the popped buffer b (port_update_volume only   *)
(* writes the notify mailbox and the phase accumulator)                  *)
process_publish(p, b) ==
    [p EXCEPT !.io.buffer_id = IF p.io.bound THEN buffer_id(p, b) ELSE @,
              !.io.status = IF p.io.bound THEN "HAVE_DATA" ELSE @]

(* the condition of the if at line 629 *)
process_skip_output(p) == TRUE

(* a variant of the branch below that reports the cycle as one without   *)
(* data instead of failing it                                            *)
process_out_of_buffers_no_error(dd, n, p) ==
    {[d |-> [dd EXCEPT !.ports[n] = p], ret |-> "SPA_STATUS_OK"]}

(* lines 617-620: out of buffers *)
process_out_of_buffers(dd, n, p) ==
    {[d |-> [dd EXCEPT !.ports[n] = p], ret |-> "-EPIPE"]}

(* impl_node_process from port n on: the set of outcomes [d, ret]; ret   *)
(* "SIGSEGV" is the fault of a NULL dereference (io == NULL at line 612, *)
(* b->buffer == NULL at line 625), whose other outcome is to go on       *)
RECURSIVE process_from(_, _)
process_from(dd, n) ==
    IF n >= dd.n_ports THEN {[d |-> dd, ret |-> "SPA_STATUS_HAVE_DATA"]}
    ELSE
      LET p == dd.ports[n] IN
      (IF p.io.bound THEN {} ELSE {[d |-> dd, ret |-> "SIGSEGV"]})
      \cup
      UNION {
        LET p1 == process_recycle(p, bid) IN
        IF spa_list_is_empty(p1.lk)
        THEN process_out_of_buffers(dd, n, p1)
        ELSE
          LET b == spa_list_first(p1.lk)
              p2 == [p1 EXCEPT !.lk = spa_list_remove(@, b)]
          IN (IF b \in p2.bufset THEN {}
              ELSE {[d |-> [dd EXCEPT !.ports[n] = p2], ret |-> "SIGSEGV"]})
             \cup
             (IF process_skip_output(p2)
              THEN {[d |-> [dd EXCEPT !.ports[n] = port_reuse_buffer(p2, buffer_id(p2, b))],
                     ret |-> "SPA_STATUS_OK"]}
              ELSE process_from([dd EXCEPT !.ports[n] = process_publish(p2, b)], n + 1))
        : bid \in io_buffer_id_read(p) }

impl_node_process(dd) == process_from(dd, 0)

(* ------------------------------------------------------------------ *)
(* The host's calls (struct spa_node_methods impl_node), each over the  *)
(* sets its arguments are drawn from                                    *)
(* ------------------------------------------------------------------ *)
(* mailboxes the host binds with SPA_IO_Buffers: NULL, or one whose      *)
(* buffer_id the host has set                                            *)
Mailboxes ==
    {NoIo} \cup {[bound |-> TRUE, buffer_id |-> b, status |-> "NEED_DATA"] : b \in IoIds}

PortUseBuffers(ports, counts, kinds) ==
    /\ pc = "running"
    /\ \E port \in ports, n \in counts :
         \E descs \in (IF n <= MaxBuf THEN [1 .. n -> kinds] ELSE {<<>>}) :
            LET r == impl_port_use_buffers(d, port, descs, n)
            IN /\ \A q \in ModelPorts, i \in Slots : r.d.ports[q].live[i] <= MaxMaps
               /\ d' = r.d
               /\ last' = Call("port_use_buffers", port, "", n, -1, {}, "", r.ret)
               /\ out' = <<>>
               /\ UNCHANGED <<pc, hist>>

PortReuseBuffer(ports, ids) ==
    /\ pc = "running"
    /\ \E port \in ports, id \in ids :
         LET r == impl_port_reuse_buffer(d, port, id)
         IN /\ d' = r.d
            /\ last' = Call("port_reuse_buffer", port, "", id, -1, {}, "", r.ret)
            /\ out' = <<>>
            /\ UNCHANGED <<pc, hist>>

PortSetIo(ports, ids, boxes, sizes) ==
    /\ pc = "running"
    /\ \E port \in ports, id \in ids, data \in boxes, size \in sizes :
         LET r == impl_port_set_io(d, port, id, data, size)
         IN /\ d' = r.d
            /\ last' = [op |-> "port_set_io", port |-> port, id |-> id, n |-> size,
                         start |-> -1, rej |-> {}, kind |-> "", ret |-> r.ret,
                         data |-> data]
            /\ out' = <<>>
            /\ UNCHANGED <<pc, hist>>

SetIo(ids, boxes, sizes) ==
    /\ pc = "running"
    /\ \E id \in ids, data \in boxes, size \in sizes :
         LET r == impl_set_io(d, id, data, size)
         IN /\ d' = r.d
            /\ last' = Call("set_io", -1, id, size, -1, {}, "", r.ret)
            /\ out' = <<>>
            /\ UNCHANGED <<pc, hist>>

PortEnumParams(ports, ids, starts, nums, rejs) ==
    /\ pc = "running"
    /\ \E port \in ports, id \in ids, start \in starts, num \in nums, rejected \in rejs :
         LET r == impl_port_enum_params(d, port, id, start, num, rejected)
         IN /\ last' = Call("port_enum_params", port, id, num, start, rejected, "", r.ret)
            /\ out' = r.out
            /\ UNCHANGED <<d, pc, hist>>

PortSetParam(ports, ids, params) ==
    /\ pc = "running"
    /\ \E port \in ports, id \in ids, param \in params, oob \in OobOutcomes :
         LET r == impl_port_set_param(d, port, id, param, oob)
         IN /\ d' = r.d
            /\ last' = Call("port_set_param", port, id, -1, -1, {}, param.kind, r.ret)
            /\ out' = r.out
            /\ hist' = HistSetParam(hist, port, id, param.kind, r.ret)
            /\ pc' = pc

SetParam ==
    /\ pc = "running"
    /\ LET r == impl_set_param(d)
       IN /\ d' = r.d
          /\ last' = Call("set_param", -1, "", -1, -1, {}, "", r.ret)
          /\ out' = r.out
          /\ UNCHANGED <<pc, hist>>

AddListener ==
    /\ pc = "running"
    /\ Cardinality(d.hooks) < MaxListeners
    /\ LET r == impl_add_listener(d, Cardinality(d.hooks) + 1)
       IN /\ d' = r.d
          /\ last' = Call("add_listener", -1, "", -1, -1, {}, "", r.ret)
          /\ out' = r.out
          /\ hist' = HistAddListener(hist, r.out)
          /\ pc' = pc

Process ==
    /\ pc = "running"
    /\ \E r \in impl_node_process(d) :
         /\ d' = r.d
         /\ last' = Call("process", -1, "",
                          IF d.ports[0].io.bound THEN d.ports[0].io.buffer_id ELSE -1,
                          -1, {}, "", r.ret)
         /\ out' = <<>>
         /\ pc' = IF r.ret = "SIGSEGV" THEN "crashed" ELSE pc
         /\ hist' = hist

(* ------------------------------------------------------------------ *)
(* Specifications                                                      *)
(* ------------------------------------------------------------------ *)
GoodFormat == [kind |-> "format", fmt |-> [format |-> "F32", rate |-> 44100, channels |-> 2]]
HostPortIds == ModelPorts \cup {MAX_PORTS}

(* the node with every handler *)
Next ==
    \/ PortUseBuffers(HostPortIds, (0 .. MaxBuf) \cup {MAX_BUFFERS + 1}, DescKinds)
    \/ PortReuseBuffer(HostPortIds, Slots)
    \/ PortSetIo(HostPortIds, {"Buffers", "Notify", "Position"}, Mailboxes, {0, 1040})
    \/ PortEnumParams(HostPortIds, ParamIds, 0 .. 2, 0 .. 2, SUBSET {0, 1})
    \/ PortSetParam(HostPortIds, {"Format", "Props"}, Payloads \cup {NoParam})
    \/ SetParam
    \/ SetIo(IoKinds, Mailboxes, {0, 1040})
    \/ AddListener
    \/ Process

Spec == Init /\ [][Next]_vars

(* sequences of port_use_buffers calls *)
NextUse ==
    PortUseBuffers(HostPortIds, (0 .. MaxBuf) \cup {MAX_BUFFERS + 1}, DescKinds)

SpecUse == Init /\ [][NextUse]_vars

(* the buffer pool and the process callback *)
NextPool ==
    \/ PortUseBuffers(ModelPorts, 0 .. MaxBuf, {"data"})
    \/ PortReuseBuffer(ModelPorts, Slots)
    \/ PortSetIo(ModelPorts, {"Buffers"}, Mailboxes, {0})
    \/ PortSetParam(ModelPorts, {"Format"}, {GoodFormat, NoParam})
    \/ Process

SpecPool == Init /\ [][NextPool]_vars

(* format negotiation and parameter enumeration *)
NextEnum ==
    \/ PortSetParam(ModelPorts, {"Format"}, Payloads \cup {NoParam})
    \/ PortEnumParams(ModelPorts, ParamIds, 0 .. 2, 0 .. 2, SUBSET {0, 1})

SpecEnum == Init /\ [][NextEnum]_vars

(* the io areas of the node and of its ports *)
NextIo ==
    \/ PortSetIo(HostPortIds, IoKinds, Mailboxes, {0, 1040})
    \/ SetIo(IoKinds, Mailboxes, {0, 1040})

SpecIo == Init /\ [][NextIo]_vars

(* format negotiation and info emission *)
NextNeg ==
    \/ PortSetParam(HostPortIds, {"Format", "Props"}, Payloads \cup {NoParam})
    \/ SetParam
    \/ AddListener

SpecNeg == Init /\ [][NextNeg]_vars

(* the port-addressed handlers on the host's ports and on a port id that *)
(* is not one of the node's                                              *)
IdleMailbox == [bound |-> TRUE, buffer_id |-> SPA_ID_INVALID, status |-> "NEED_DATA"]
NextPorts ==
    \/ PortUseBuffers(HostPortIds, {0, 1}, {"data"})
    \/ PortReuseBuffer(HostPortIds, {0})
    \/ PortSetIo(HostPortIds, {"Buffers"}, {NoIo, IdleMailbox}, {0})
    \/ PortEnumParams(HostPortIds, {"Format", "IO"}, {0}, {1}, {{}})
    \/ PortSetParam(HostPortIds, {"Format"}, {GoodFormat, NoParam})

SpecPorts == Init /\ [][NextPorts]_vars

(* the handlers that change a port, on the host's ports and on the port  *)
(* that follows them                                                     *)
NextIso ==
    \/ PortUseBuffers(0 .. MaxPort, {1}, {"data"})
    \/ PortReuseBuffer(0 .. MaxPort, {0})
    \/ PortSetIo(0 .. MaxPort, {"Buffers"}, {IdleMailbox}, {0})
    \/ PortSetParam(0 .. MaxPort, {"Format"}, {GoodFormat, NoParam})

SpecIso == Init /\ [][NextIso]_vars

(* ------------------------------------------------------------------ *)
(* Observations used by the properties                                 *)
(* ------------------------------------------------------------------ *)
Range(seq) == {seq[i] : i \in 1 .. Len(seq)}
NoDup(seq) == \A i, j \in 1 .. Len(seq) : i # j => seq[i] # seq[j]

(* the ids 0 .. n-1 in order *)
IdSeq(n) == [i \in 1 .. n |-> i - 1]

(* buffers of the current pool that a traversal of the free list does not meet *)
InFlight(p) == {i \in 0 .. (p.n_buffers - 1) : i \notin Range(FreeList(p))}

(* each buffer of the free list is one of the pool and is met once *)
FreeListSound(p) ==
    /\ NoDup(FreeList(p))
    /\ Range(FreeList(p)) \subseteq 0 .. (p.n_buffers - 1)

(* a format is committed: port->format is not the zeroed struct *)
Committed(p) == p.format.format # "UNKNOWN"

(* every link read by the list operations has been written *)
LinksWritten ==
    \A n \in PortIds :
        LET lk == d.ports[n].lk
        IN /\ lk.next[ListHead] # NULL /\ lk.prev[ListHead] # NULL
           /\ lk.prev[ListHead] # ListHead => lk.next[lk.prev[ListHead]] # NULL
           /\ lk.next[ListHead] # ListHead =>
                 /\ lk.prev[lk.next[ListHead]] # NULL
                 /\ lk.next[lk.next[ListHead]] # NULL

(* ------------------------------------------------------------------ *)
(* Properties                                                          *)
(* ------------------------------------------------------------------ *)

(* C1: immediately after each successful port_use_buffers call with n    *)
(* descriptors, in any sequence of such calls, the port's free list      *)
(* holds exactly the ids 0 .. n-1, each once, in descriptor order, and   *)
(* no buffer is in flight. (Stated for SpecUse, whose only action is     *)
(* port_use_buffers.)                                                    *)
C1_UseBuffersFillsFreeList ==
    (last.op = "port_use_buffers" /\ last.ret = "0" /\ last.port \in ModelPorts) =>
        /\ FreeList(d.ports[last.port]) = IdSeq(last.n)
        /\ InFlight(d.ports[last.port]) = {}

(* C2: recycling is idempotent-safe: recycling an id that is already    *)
(* free (port_reuse_buffer by the host, or the recycle step of process   *)
(* on the id the mailbox names) in a pool whose free list holds each     *)
(* buffer at most once adds no second occurrence: afterwards the free    *)
(* list still holds each buffer at most once, and after the host's call  *)
(* the same buffers are free as before.                                  *)
C2_RecycleKeepsMembership ==
    [][\A p \in ModelPorts :
        /\ (/\ last'.op = "port_reuse_buffer"
            /\ last'.port = p
            /\ FreeListSound(d.ports[p])
            /\ last'.n \in Range(FreeList(d.ports[p])))
           => /\ NoDup(FreeList(d'.ports[p]))
              /\ Range(FreeList(d'.ports[p])) = Range(FreeList(d.ports[p]))
        /\ (/\ last'.op = "process"
            /\ FreeListSound(d.ports[p])
            /\ d.ports[p].io.bound
            /\ d.ports[p].io.buffer_id \in Range(FreeList(d.ports[p])))
           => NoDup(FreeList(d'.ports[p]))]_vars

(* the free list a cycle of process pops from, as the claims describe    *)
(* it: the free list with the buffer the mailbox names put at its tail   *)
FreeAfterRecycle(p) ==
    IF p.io.buffer_id < p.n_buffers
    THEN Append(FreeList(p), p.io.buffer_id)
    ELSE FreeList(p)

(* C3: with a committed format and a pool of n >= 2 buffers, all of them *)
(* free once the previously delivered one is recycled, a process() call  *)
(* delivers the head of the free list and leaves the rest in order       *)
(* (FIFO round robin), so exactly one buffer is in flight after it.      *)
C3_ProcessFifo ==
    [][\A p \in ModelPorts :
        LET F == FreeAfterRecycle(d.ports[p])
        IN (/\ last'.op = "process"
            /\ Committed(d.ports[p])
            /\ d.ports[p].io.bound
            /\ d.ports[p].n_buffers >= 2
            /\ F \in {IdSeq(d.ports[p].n_buffers)} \cup
                     {[i \in 1 .. Len(F) |-> (i - 1 + k) % Len(F)] : k \in 0 .. Len(F)}
            /\ Len(F) = d.ports[p].n_buffers)
           => /\ d'.ports[p].io.buffer_id = Head(F)
              /\ FreeList(d'.ports[p]) = Tail(F)
              /\ InFlight(d'.ports[p]) = {Head(F)}]_vars

(* C4: when process() comes to a port whose free list is empty after the *)
(* recycle step (in particular an empty free list and no delivered id in *)
(* the mailbox), it returns the starvation error, pops and delivers      *)
(* nothing (the list and the mailbox are as the recycle step left them)  *)
(* and the node keeps running. Port 0 is the port process() comes to     *)
(* first.                                                                *)
C4_StarvationError ==
    [][(/\ last'.op = "process"
        /\ d.ports[0].io.bound
        /\ \/ spa_list_is_empty(process_recycle(d.ports[0], d.ports[0].io.buffer_id).lk)
           \/ (FreeList(d.ports[0]) = <<>> /\ d.ports[0].io.buffer_id >= d.ports[0].n_buffers))
       => /\ last'.ret = "-EPIPE"
          /\ pc' = "running"
          /\ d' = [d EXCEPT !.ports[0] =
                        process_recycle(d.ports[0], d.ports[0].io.buffer_id)]
          /\ FreeList(d'.ports[0]) = <<>>]_vars

(* C4 witness: a process() call on a bound mailbox has failed with the   *)
(* starvation error on an empty free list                                *)
C4_Witness ==
    /\ last.op = "process"
    /\ last.ret = "-EPIPE"
    /\ d.ports[0].io.bound
    /\ FreeList(d.ports[0]) = <<>>

(* C5: after port_set_param(Format, X) and then port_set_param(Format,   *)
(* absent) on a port, port_enum_params for Buffers on that port (from    *)
(* index 0, no filter) succeeds with zero candidates                     *)
C5_BuffersUnreadableAfterClear ==
    (/\ last.op = "port_enum_params"
     /\ last.id = "Buffers"
     /\ last.port \in ModelPorts
     /\ last.start = 0
     /\ last.rej = {}
     /\ hist.phase[last.port] = "cleared")
    => (last.ret = "0" /\ Len(out) = 0)

(* C6: in every state (format unset, committed or cleared again)         *)
(* port_enum_params for EnumFormat with start = 0, num = 1 and no filter *)
(* emits exactly one candidate, the one at index 0, and returns success  *)
C6_EnumFormatAlwaysOne ==
    (/\ last.op = "port_enum_params"
     /\ last.id = "EnumFormat"
     /\ last.port \in ModelPorts
     /\ last.start = 0
     /\ last.n = 1
     /\ last.rej = {})
    => /\ last.ret = "0"
       /\ Len(out) = 1
       /\ out[1].ev = "result"
       /\ out[1].port = last.port
       /\ out[1].index = 0
       /\ out[1].what = "EnumFormat"

(* C6 witness: the enumeration has run on a port with a committed format *)
(* that the port holds                                                   *)
C6_Witness ==
    /\ last.op = "port_enum_params"
    /\ last.id = "EnumFormat"
    /\ last.port \in ModelPorts
    /\ last.start = 0
    /\ last.n = 1
    /\ last.rej = {}
    /\ hist.phase[last.port] = "committed"
    /\ Committed(d.ports[last.port])
    /\ Len(out) = 1

(* C7: between two consecutive full emissions (add_listener) with exactly *)
(* one port_set_param commit of a format on a port in between, the serial *)
(* bit of the port's Format descriptor toggles: the second emission       *)
(* reports the opposite of the first                                      *)
C7_SerialTogglesOnCommit ==
    \A p \in ModelPorts :
        (/\ last.op = "add_listener"
         /\ hist.nfull >= 2
         /\ hist.prev_muts[p] = <<"format">>)
        => ((PORT_Format \in hist.port_serial[p])
                # (PORT_Format \in hist.prev_port_serial[p]))

(* C8: an emission with no mutation of a parameter since the previous    *)
(* emission leaves that parameter's serial bit as it was: add_listener   *)
(* and set_param (which mutate nothing) change no serial bit of the node *)
(* table or of a port table, port_set_param changes none but that of the *)
(* Format descriptor it rewrites, and two consecutive add_listener calls *)
(* with no port_set_param in between report the same serial bits for     *)
(* every descriptor                                                      *)
C8_SerialStableWithoutMutation ==
    [][/\ (last'.op \in {"add_listener", "set_param"})
          => /\ SerialSet(d'.params) = SerialSet(d.params)
             /\ \A p \in ModelPorts :
                    SerialSet(d'.ports[p].port_params) = SerialSet(d.ports[p].port_params)
       /\ (last'.op = "port_set_param")
          => /\ SerialSet(d'.params) \ {NODE_Format} = SerialSet(d.params) \ {NODE_Format}
             /\ \A p \in ModelPorts :
                    SerialSet(d'.ports[p].port_params) \ {PORT_Format}
                        = SerialSet(d.ports[p].port_params) \ {PORT_Format}
       /\ (last'.op = "add_listener" /\ hist'.nfull >= 2
           /\ \A p \in ModelPorts : hist'.prev_muts[p] = <<>>)
          => /\ hist'.node_serial = hist'.prev_node_serial
             /\ hist'.port_serial = hist'.prev_port_serial]_vars

(* C8 witness: a second add_listener has reported node and port tables   *)
(* with no port_set_param since the first                                *)
C8_Witness ==
    /\ last.op = "add_listener"
    /\ hist.nfull >= 2
    /\ \A p \in ModelPorts : hist.prev_muts[p] = <<>>
    /\ IsReported(out, "info", -1)
    /\ \A p \in ModelPorts : IsReported(out, "port_info", p)

(* C9: each port's own table reflects its format: after a successful     *)
(* port_set_param with a Format object the port's Buffers descriptor is  *)
(* readable and its Format descriptor read-write; while the format is    *)
(* unset (initially, or after a port_set_param with no payload) the      *)
(* Buffers descriptor is not readable and the Format descriptor is       *)
(* write-only                                                            *)
C9_PortTableReflectsFormat ==
    \A p \in ModelPorts :
        LET fflags == d.ports[p].port_params[PORT_Format].flags
                        \cap SPA_PARAM_INFO_READWRITE
            bflags == d.ports[p].port_params[PORT_Buffers].flags
        IN /\ hist.phase[p] = "committed"
              => /\ SPA_PARAM_INFO_READ \subseteq bflags
                 /\ fflags = SPA_PARAM_INFO_READWRITE
           /\ hist.phase[p] \in {"initial", "cleared"}
              => /\ SPA_PARAM_INFO_READ \cap bflags = {}
                 /\ fflags = SPA_PARAM_INFO_WRITE

(* C10: with a committed format, a bound mailbox and a non-empty free    *)
(* list, process() returns data-available, the mailbox holds the id of   *)
(* the buffer popped from the head of the free list with status          *)
(* data-available, and that buffer is in flight (not in the free list).  *)
C10_ProcessDelivers ==
    [][\A p \in ModelPorts :
        LET F == FreeAfterRecycle(d.ports[p])
        IN (/\ last'.op = "process"
            /\ Committed(d.ports[p])
            /\ d.ports[p].io.bound
            /\ FreeListSound(d.ports[p])
            /\ NoDup(F)
            /\ F # <<>>)
           => /\ last'.ret = "SPA_STATUS_HAVE_DATA"
              /\ d'.ports[p].io.buffer_id = Head(F)
              /\ d'.ports[p].io.status = "HAVE_DATA"
              /\ Head(F) \in InFlight(d'.ports[p])]_vars

(* C11: when the port process() comes to has no committed format, a      *)
(* bound mailbox and a non-empty free list holding every buffer of the   *)
(* pool once, process() returns no-data (not the starvation error) and   *)
(* the node keeps running, publishes no buffer id (the mailbox status is *)
(* untouched and its id is as before or invalid), and the popped buffer  *)
(* is recycled: the same buffers are free after the call as before and   *)
(* none is in flight; when the mailbox names no buffer of the pool the   *)
(* popped head has moved to the tail of the free list.                   *)
C11_NoFormatNoData ==
    [][(/\ last'.op = "process"
        /\ ~Committed(d.ports[0])
        /\ d.ports[0].io.bound
        /\ FreeListSound(d.ports[0])
        /\ FreeList(d.ports[0]) # <<>>
        /\ InFlight(d.ports[0]) = {})
       => /\ last'.ret = "SPA_STATUS_OK"
          /\ pc' = "running"
          /\ d'.ports[0].io.status = d.ports[0].io.status
          /\ d'.ports[0].io.buffer_id \in {d.ports[0].io.buffer_id, SPA_ID_INVALID}
          /\ Range(FreeList(d'.ports[0])) = Range(FreeList(d.ports[0]))
          /\ InFlight(d'.ports[0]) = {}
          /\ d.ports[0].io.buffer_id >= d.ports[0].n_buffers
             => FreeList(d'.ports[0])
                    = Append(Tail(FreeList(d.ports[0])), Head(FreeList(d.ports[0])))]_vars

(* C12: port_use_buffers with more descriptors than the pool's capacity *)
(* (MAX_BUFFERS = 32) returns the capacity error and leaves the port's   *)
(* buffer table, buffer count and free list (indeed the whole node) as   *)
(* they were before the call                                             *)
C12_CapacityExceeded ==
    [][(/\ last'.op = "port_use_buffers"
        /\ last'.port \in ModelPorts
        /\ last'.n > MAX_BUFFERS)
       => /\ last'.ret = "-ENOSPC"
          /\ d'.ports[last'.port].bufset = d.ports[last'.port].bufset
          /\ d'.ports[last'.port].mapped = d.ports[last'.port].mapped
          /\ d'.ports[last'.port].n_buffers = d.ports[last'.port].n_buffers
          /\ d'.ports[last'.port].lk = d.ports[last'.port].lk
          /\ d' = d]_vars

(* C12 witness: a call with 33 descriptors has been refused on a port    *)
(* that holds a pool of two buffers                                      *)
C12_Witness ==
    /\ last.op = "port_use_buffers"
    /\ last.port \in ModelPorts
    /\ last.n = MAX_BUFFERS + 1
    /\ last.ret = "-ENOSPC"
    /\ d.ports[last.port].n_buffers = 2
    /\ FreeList(d.ports[last.port]) = <<0, 1>>

(* C13: port_use_buffers replaces the pool atomically: when the call     *)
(* fails on a descriptor (its mapping fails, or it has no usable memory) *)
(* the free list and the buffer count are as before the call and no      *)
(* descriptor before the failing one has been added to the free list     *)
C13_UseBuffersAtomic ==
    [][(/\ last'.op = "port_use_buffers"
        /\ last'.port \in ModelPorts
        /\ last'.n <= MAX_BUFFERS
        /\ last'.ret # "0")
       => /\ d'.ports[last'.port].n_buffers = d.ports[last'.port].n_buffers
          /\ d'.ports[last'.port].lk = d.ports[last'.port].lk
          /\ FreeList(d'.ports[last'.port]) = FreeList(d.ports[last'.port])]_vars

(* C14: after a successful port_use_buffers with zero buffers the old    *)
(* buffers are gone: the free list is empty, and a process() that comes  *)
(* next (on a bound mailbox) returns the starvation error and pops no    *)
(* buffer of the old pool. Port 0 is the port process() comes to first.  *)
C14_ZeroBuffersEmptiesPool ==
    [][(/\ last.op = "port_use_buffers"
        /\ last.port = 0
        /\ last.n = 0
        /\ last.ret = "0"
        /\ d.ports[0].io.bound
        /\ last'.op = "process")
       => /\ FreeList(d.ports[0]) = <<>>
          /\ last'.ret = "-EPIPE"
          /\ FreeList(d'.ports[0]) = <<>>]_vars

(* C15: port_set_param with a parameter id other than Format is refused  *)
(* with -ENOENT and has no side effect: the port's format, every         *)
(* parameter table and every change mask (the whole node) are unchanged  *)
(* and no info notification is emitted                                   *)
C15_OtherParamRejected ==
    [][(/\ last'.op = "port_set_param"
        /\ last'.port \in ModelPorts
        /\ last'.id # "Format")
       => /\ last'.ret = "-ENOENT"
          /\ d'.ports[last'.port].format = d.ports[last'.port].format
          /\ d'.params = d.params
          /\ \A n \in PortIds :
                /\ d'.ports[n].port_params = d.ports[n].port_params
                /\ d'.ports[n].change_mask = d.ports[n].change_mask
          /\ d'.info_change_mask = d.info_change_mask
          /\ d'.port_change_mask_all = d.port_change_mask_all
          /\ d' = d
          /\ out' = <<>>]_vars

(* C15 witness: a port_set_param for Props has been refused while a      *)
(* listener is registered and the port holds a format                    *)
C15_Witness ==
    /\ last.op = "port_set_param"
    /\ last.port \in ModelPorts
    /\ last.id = "Props"
    /\ last.ret = "-ENOENT"
    /\ d.hooks # {}
    /\ Committed(d.ports[last.port])
    /\ out = <<>>

(* C16: port_set_param(Format, payload) with a payload that does not     *)
(* parse as an audio format is refused with an error and leaves the      *)
(* port's format and the parameter flags of the node and port tables     *)
(* unchanged; and in every state a port's format is fully unset or       *)
(* fully valid (rate > 0 and channels > 0)                               *)
C16_MalformedFormatRejected ==
    [][/\ (/\ last'.op = "port_set_param"
           /\ last'.port \in ModelPorts
           /\ last'.id = "Format"
           /\ last'.kind = "other")
          => /\ last'.ret # "0"
             /\ d'.ports[last'.port].format = d.ports[last'.port].format
             /\ d'.params = d.params
             /\ d'.ports[last'.port].port_params = d.ports[last'.port].port_params
       /\ \A p \in ModelPorts :
             \/ d'.ports[p].format = ZeroFormat
             \/ /\ d'.ports[p].format.format # "UNKNOWN"
                /\ d'.ports[p].format.rate > 0
                /\ d'.ports[p].format.channels > 0]_vars

(* C17: port_set_io binds the mailbox passed as the port's data-exchange *)
(* mailbox for id Buffers, and as its notify mailbox, with the size      *)
(* passed, for id Notify, changing nothing else; with any other id it    *)
(* fails with -ENOENT and leaves both mailbox slots (and the whole node) *)
(* unchanged                                                             *)
C17_PortSetIoBinds ==
    [][(last'.op = "port_set_io" /\ last'.port \in ModelPorts)
       => LET p == last'.port IN
          /\ last'.id = "Buffers"
             => /\ last'.ret = "0"
                /\ d' = [d EXCEPT !.ports[p].io = last'.data]
          /\ last'.id = "Notify"
             => /\ last'.ret = "0"
                /\ d' = [d EXCEPT !.ports[p].io_notify = last'.data.bound,
                                  !.ports[p].io_notify_size = last'.n]
          /\ last'.id \notin {"Buffers", "Notify"}
             => /\ last'.ret = "-ENOENT"
                /\ d'.ports[p].io = d.ports[p].io
                /\ d'.ports[p].io_notify = d.ports[p].io_notify
                /\ d'.ports[p].io_notify_size = d.ports[p].io_notify_size
                /\ d' = d]_vars

(* C17 witness: a port_set_io with an unknown id has been refused on a   *)
(* port whose two mailboxes are bound                                    *)
C17_Witness ==
    /\ last.op = "port_set_io"
    /\ last.port \in ModelPorts
    /\ last.id = "Invalid"
    /\ last.ret = "-ENOENT"
    /\ d.ports[last.port].io.bound
    /\ d.ports[last.port].io_notify
    /\ d.ports[last.port].io_notify_size > 0

(* C18: the node-level set_io with an id that is neither Buffers nor     *)
(* Notify fails with -ENOENT; it does not return success                 *)
C18_SetIoUnknownIdFails ==
    (last.op = "set_io" /\ last.id \notin {"Buffers", "Notify"})
    => (last.ret = "-ENOENT" /\ last.ret # "0")

(* C19: port_enum_params with a parameter id the port does not know      *)
(* fails with -ENOENT for every start index and every num, num = 0       *)
(* included, and emits nothing; it never returns success                 *)
C19_EnumUnknownKindFails ==
    (/\ last.op = "port_enum_params"
     /\ last.port \in ModelPorts
     /\ last.id \notin {"EnumFormat", "Format", "Buffers", "Meta", "IO"})
    => (last.ret = "-ENOENT" /\ out = <<>>)

(* C20: port_enum_params for Format with start = 0, num >= 1 and no      *)
(* filter returns success and emits exactly one candidate (the format,   *)
(* at index 0) if the port's format has been committed by a successful   *)
(* port_set_param with a Format object and not been cleared since, and   *)
(* no candidate if no format is committed (initially, or after a         *)
(* port_set_param with no payload)                                       *)
C20_EnumFormatIffCommitted ==
    (/\ last.op = "port_enum_params"
     /\ last.port \in ModelPorts
     /\ last.id = "Format"
     /\ last.start = 0
     /\ last.n >= 1
     /\ last.rej = {})
    => /\ last.ret = "0"
       /\ hist.phase[last.port] = "committed"
          => /\ Len(out) = 1
             /\ out[1].index = 0
             /\ out[1].what = "Format"
       /\ hist.phase[last.port] \in {"initial", "cleared"}
          => Len(out) = 0

(* C21: in port_enum_params a candidate the filter refuses is skipped    *)
(* and not counted against num: no refused index is among the results,   *)
(* and for IO with a filter that refuses candidate 0 and accepts         *)
(* candidate 1, start = 0 and num = 1 yield exactly candidate 1 (the     *)
(* Notify area, with index 1) and success                                *)
C21_FilterSkipsCandidate ==
    (last.op = "port_enum_params" /\ last.port \in ModelPorts)
    => /\ \A i \in 1 .. Len(out) : out[i].index \notin last.rej
       /\ (last.id = "IO" /\ last.start = 0 /\ last.n = 1 /\ last.rej = {0})
          => /\ last.ret = "0"
             /\ Len(out) = 1
             /\ out[1].ev = "result"
             /\ out[1].index = 1
             /\ out[1].what = "IO:Notify"

(* C21 witness: the IO enumeration with candidate 0 refused has emitted  *)
(* candidate 1                                                           *)
C21_Witness ==
    /\ last.op = "port_enum_params"
    /\ last.port \in ModelPorts
    /\ last.id = "IO"
    /\ last.start = 0
    /\ last.n = 1
    /\ last.rej = {0}
    /\ Len(out) = 1
    /\ out[1].index = 1

(* the candidates of a kind's ordering: one for EnumFormat and for Meta, *)
(* two for IO (Buffers first, Notify second)                             *)
KindOrdering(id) ==
    IF id = "IO" THEN <<"IO:Buffers", "IO:Notify">>
    ELSE IF id = "Meta" THEN <<"Meta:Header">>
    ELSE <<"EnumFormat">>

(* the indexes of a kind's ordering at positions >= start that the       *)
(* filter accepts, ascending                                             *)
AcceptedFrom(id, start, rej) ==
    SelectSeq([i \in 1 .. Len(KindOrdering(id)) |-> i - 1],
              LAMBDA x : x >= start /\ x \notin rej)

(* C22: for EnumFormat, Meta and IO, every start index and every num,    *)
(* port_enum_params returns success and emits exactly min(num, number of *)
(* filter-accepted candidates of the kind at positions >= start)         *)
(* results, in ascending index order, each the candidate of its index;   *)
(* a start index at or beyond the end of the ordering gives no result    *)
C22_EnumCountAndOrder ==
    (/\ last.op = "port_enum_params"
     /\ last.port \in ModelPorts
     /\ last.id \in {"EnumFormat", "Meta", "IO"})
    => LET A == AcceptedFrom(last.id, last.start, last.rej)
           k == Min(last.n, Len(A))
       IN /\ last.ret = "0"
          /\ Len(out) = k
          /\ \A i \in 1 .. k :
                /\ out[i].ev = "result"
                /\ out[i].port = last.port
                /\ out[i].index = A[i]
                /\ out[i].what = KindOrdering(last.id)[A[i] + 1]
          /\ last.start >= Len(KindOrdering(last.id)) => out = <<>>

(* C22 witness: the IO enumeration from index 0 with num = 2 and no      *)
(* filter has emitted both candidates in order                           *)
C22_Witness ==
    /\ last.op = "port_enum_params"
    /\ last.port \in ModelPorts
    /\ last.id = "IO"
    /\ last.start = 0
    /\ last.n = 2
    /\ last.rej = {}
    /\ Len(out) = 2
    /\ out[1].what = "IO:Buffers"
    /\ out[2].what = "IO:Notify"

(* the notifications of kind ev for port in outs *)
Notes(outs, ev, port) ==
    {i \in 1 .. Len(outs) : outs[i].ev = ev /\ outs[i].port = port}

(* C23: add_listener delivers, before it returns and to the new listener *)
(* alone, one node info whose mask has every node facet (flags, props,   *)
(* params) and, for each port, one port info whose mask has every port   *)
(* facet (flags, props, params), whatever the stored change masks were   *)
C23_AddListenerFullSnapshot ==
    (last.op = "add_listener")
    => /\ Cardinality(Notes(out, "info", -1)) = 1
       /\ \A i \in Notes(out, "info", -1) :
             /\ out[i].to = {Cardinality(d.hooks)}
             /\ (SPA_NODE_CHANGE_MASK_FLAGS \cup SPA_NODE_CHANGE_MASK_PROPS
                    \cup SPA_NODE_CHANGE_MASK_PARAMS) \subseteq out[i].mask
       /\ \A p \in ModelPorts :
             /\ Cardinality(Notes(out, "port_info", p)) = 1
             /\ \A i \in Notes(out, "port_info", p) :
                   /\ out[i].to = {Cardinality(d.hooks)}
                   /\ (SPA_PORT_CHANGE_MASK_FLAGS \cup SPA_PORT_CHANGE_MASK_PROPS
                          \cup SPA_PORT_CHANGE_MASK_PARAMS) \subseteq out[i].mask

(* C24: a partial emission reflects only the facets mutated since the    *)
(* last emission: once add_listener has run, the notifications a         *)
(* successful port_set_param(Format) produces are port infos of the port *)
(* that was set, with the params facet alone; there is no node info, no  *)
(* port info of another port and none with the flags or props facet      *)
C24_PartialEmissionOnlyMutated ==
    (/\ last.op = "port_set_param"
     /\ last.port \in ModelPorts
     /\ last.id = "Format"
     /\ last.ret = "0"
     /\ hist.nfull >= 1)
    => \A i \in 1 .. Len(out) :
          /\ out[i].ev = "port_info"
          /\ out[i].port = last.port
          /\ out[i].mask = SPA_PORT_CHANGE_MASK_PARAMS

(* C25 as stated: after a non-full emission the stored change mask has   *)
(* the value it had before the emission: the node-level set_param (which *)
(* only emits) leaves the node's and every port's stored mask as it was, *)
(* and a successful port_set_param(Format) leaves the node's mask and    *)
(* the other ports' masks as they were and the mask of its port as it    *)
(* set it (params)                                                       *)
C25_PartialEmissionRestoresMask ==
    [][/\ (last'.op = "set_param")
          => /\ d'.info_change_mask = d.info_change_mask
             /\ \A n \in PortIds : d'.ports[n].change_mask = d.ports[n].change_mask
       /\ (last'.op = "port_set_param" /\ last'.port \in ModelPorts
           /\ last'.id = "Format" /\ last'.ret = "0")
          => /\ d'.info_change_mask = d.info_change_mask
             /\ \A n \in PortIds :
                   d'.ports[n].change_mask =
                      IF n = last'.port THEN SPA_PORT_CHANGE_MASK_PARAMS
                      ELSE d.ports[n].change_mask]_vars

(* C25 amended: after a non-full emission (set_param, or a successful    *)
(* port_set_param(Format)) the stored change mask of the node and of     *)
(* every port is zero; a full emission (add_listener) is the one that    *)
(* leaves each stored mask with the value it had before the emission     *)
C25_PartialEmissionClearsMask ==
    [][/\ (\/ last'.op = "set_param"
           \/ (last'.op = "port_set_param" /\ last'.port \in ModelPorts
               /\ last'.id = "Format" /\ last'.ret = "0"))
          => /\ d'.info_change_mask = {}
             /\ \A n \in PortIds : d'.ports[n].change_mask = {}
       /\ (last'.op = "add_listener")
          => /\ d'.info_change_mask = d.info_change_mask
             /\ \A n \in PortIds : d'.ports[n].change_mask = d.ports[n].change_mask]_vars

(* C25 witness: a set_param has emitted the pending node and port infos  *)
(* to a registered listener and left the stored masks zero               *)
C25_Witness ==
    /\ last.op = "set_param"
    /\ d.hooks # {}
    /\ Notes(out, "info", -1) # {}
    /\ \A p \in ModelPorts : Notes(out, "port_info", p) # {}
    /\ d.info_change_mask = {}
    /\ \A n \in PortIds : d.ports[n].change_mask = {}

(* C26: every successful port_set_param(Format), with a payload or       *)
(* without, marks the params facet of its port and delivers, before it   *)
(* returns and to every registered listener, one port info for that port *)
(* whose mask includes the params facet                                  *)
C26_CommitNotifiesPort ==
    (/\ last.op = "port_set_param"
     /\ last.port \in ModelPorts
     /\ last.id = "Format"
     /\ last.ret = "0")
    => /\ Cardinality(Notes(out, "port_info", last.port)) = 1
       /\ \A i \in Notes(out, "port_info", last.port) :
             /\ SPA_PORT_CHANGE_MASK_PARAMS \subseteq out[i].mask
             /\ out[i].to = d.hooks
             /\ out[i].params = d.ports[last.port].port_params

(* C26 witness: a port_set_param(Format) with no payload has notified    *)
(* the registered listeners of the port's params                         *)
C26_Witness ==
    /\ last.op = "port_set_param"
    /\ last.port \in ModelPorts
    /\ last.id = "Format"
    /\ last.kind = "absent"
    /\ last.ret = "0"
    /\ d.hooks # {}
    /\ \E i \in Notes(out, "port_info", last.port) :
          out[i].mask = SPA_PORT_CHANGE_MASK_PARAMS /\ out[i].to = d.hooks

(* C28: at the start of the cycle of the port process() comes to, with a *)
(* bound mailbox: if the id in the mailbox is smaller than the port's    *)
(* buffer count, that buffer is appended to the free list and the        *)
(* mailbox id set to invalid before the cycle goes on (the call does     *)
(* what it does from the state with the buffer recycled and the id       *)
(* invalid, and returns with the id invalid); if the id is invalid or    *)
(* not smaller than the buffer count, nothing is recycled and the        *)
(* mailbox id is unchanged: an empty free list stays empty and the call  *)
(* starves with the node untouched, a non-empty one has only its head    *)
(* popped                                                                *)
C28_RecycleStep ==
    [][(last'.op = "process" /\ d.ports[0].io.bound)
       => LET p == d.ports[0]
              id == p.io.buffer_id
              recycled == [d EXCEPT !.ports[0] =
                              [p EXCEPT !.lk = spa_list_append(@, id),
                                        !.io.buffer_id = SPA_ID_INVALID]]
          IN /\ id < p.n_buffers
                => /\ \E r \in impl_node_process(recycled) :
                         d' = r.d /\ last'.ret = r.ret
                   /\ d'.ports[0].io.buffer_id = SPA_ID_INVALID
             /\ ~(id < p.n_buffers)
                => /\ d'.ports[0].io.buffer_id = id
                   /\ spa_list_is_empty(p.lk)
                      => (d' = d /\ last'.ret = "-EPIPE")
                   /\ ~spa_list_is_empty(p.lk)
                      => \/ last'.ret = "SIGSEGV"
                         \/ d'.ports[0].lk =
                               spa_list_append(spa_list_remove(p.lk, spa_list_first(p.lk)),
                                               buffer_id(p, spa_list_first(p.lk)))]_vars

(* C28 witness: process() has found the id of a buffer of the pool in    *)
(* the mailbox and left the mailbox id invalid and the buffer in the     *)
(* free list                                                             *)
C28_Witness ==
    /\ last.op = "process"
    /\ d.ports[0].io.bound
    /\ last.n >= 0
    /\ last.n < d.ports[0].n_buffers
    /\ d.ports[0].io.buffer_id = SPA_ID_INVALID
    /\ last.n \in Range(FreeList(d.ports[0]))

(* C29: one process() call runs the cycle for every port of the node in  *)
(* ascending index order: a call (port 0 having its mailbox) that        *)
(* returns without the starvation                                        *)
(* error (and without a fault) has run the recycle and pop steps on each *)
(* of the n_ports ports, so each of them had a mailbox and, after its    *)
(* recycle step, a buffer to pop                                         *)
C29_ProcessVisitsEveryPort ==
    [][(/\ last'.op = "process"
        /\ d.ports[0].io.bound
        /\ last'.ret \in {"SPA_STATUS_OK", "SPA_STATUS_HAVE_DATA"})
       => \A n \in 0 .. (d.n_ports - 1) :
             /\ d.ports[n].io.bound
             /\ ~spa_list_is_empty(process_recycle(d.ports[n], d.ports[n].io.buffer_id).lk)]_vars

C31_UseBuffersInvalidatesIds ==
    [][(/\ last.op = "port_use_buffers"
        /\ last.port = 0
        /\ last.ret = "0"
        /\ FreeList(d.ports[0]) = IdSeq(d.ports[0].n_buffers)
        /\ d.ports[0].io.bound
        /\ d.ports[0].io.buffer_id \in Slots
        /\ last'.op = "process")
       => /\ NoDup(FreeList(d'.ports[0]))
          /\ Range(FreeList(d'.ports[0])) = 0 .. (d.ports[0].n_buffers - 1)]_vars

(* C32: every buffer that port_use_buffers memory-maps is unmapped       *)
(* exactly once, when the pool is replaced: after each successful        *)
(* port_use_buffers call the live mappings are those of the mapped       *)
(* buffers of the current pool, one each, and no other (no leak, no      *)
(* double unmap)                                                         *)
C32_MappingsMatchPool ==
    (last.op = "port_use_buffers" /\ last.port \in ModelPorts /\ last.ret = "0")
    => \A i \in Slots :
          d.ports[last.port].live[i] =
             IF i < d.ports[last.port].n_buffers /\ i \in d.ports[last.port].mapped
             THEN 1 ELSE 0

(* C33: the snapshot add_listener emits goes to the newly added listener *)
(* alone: no notification of the call is delivered to a listener that    *)
(* was registered before it; when the call returns the earlier listeners *)
(* and the new one are all registered, and every notification of a later *)
(* emission (set_param, port_set_param) goes to all registered listeners *)
C33_SnapshotToNewListenerOnly ==
    [][/\ (last'.op = "add_listener")
          => LET new == Cardinality(d.hooks) + 1
             IN /\ new \notin d.hooks
                /\ d'.hooks = d.hooks \cup {new}
                /\ \A i \in 1 .. Len(out') :
                      /\ out'[i].to = {new}
                      /\ out'[i].to \cap d.hooks = {}
       /\ (last'.op \in {"set_param", "port_set_param"})
          => /\ d'.hooks = d.hooks
             /\ \A i \in 1 .. Len(out') : out'[i].to = d.hooks]_vars

(* C33 witness: a second listener has been added and the node info and   *)
(* the port infos of the call went to it alone                           *)
C33_Witness ==
    /\ last.op = "add_listener"
    /\ d.hooks = {1, 2}
    /\ Notes(out, "info", -1) # {}
    /\ \A p \in ModelPorts : Notes(out, "port_info", p) # {}
    /\ \A i \in 1 .. Len(out) : out[i].to = {2}

(* C34: port_set_param on a port leaves the node-level parameter table   *)
(* (its four descriptors and their flags) unchanged, writes only within  *)
(* that port's own descriptor table and writes no descriptor index       *)
(* outside a table's bounds: the members that follow the node table      *)
(* (port_change_mask_all, a port's format when the call sets none) and   *)
(* the tables of the other ports are as before the call                  *)
C34_SetParamWritesPortTableOnly ==
    [][(last'.op = "port_set_param" /\ last'.port \in ModelPorts /\ last'.id = "Format")
       => /\ d'.params = d.params
          /\ d'.port_change_mask_all = d.port_change_mask_all
          /\ \A n \in PortIds \ {last'.port} :
                /\ d'.ports[n].port_params = d.ports[n].port_params
                /\ d'.ports[n].format = d.ports[n].format]_vars

(* C35: process() never reads or writes the data-exchange mailbox of a   *)
(* port whose mailbox is unbound (never bound through port_set_io, or    *)
(* bound to a null pointer): when the port it comes to first is in that  *)
(* state, the call returns a status, the node keeps running and the      *)
(* port's mailbox binding is as before                                   *)
C35_UnboundMailboxUntouched ==
    [][(last'.op = "process" /\ ~d.ports[0].io.bound)
       => /\ last'.ret \in {"SPA_STATUS_OK", "SPA_STATUS_HAVE_DATA", "-EPIPE"}
          /\ pc' = "running"
          /\ d'.ports[0].io = d.ports[0].io]_vars

(* C36: port_reuse_buffer with a buffer id that is not in the port's     *)
(* current pool (id >= current buffer count) leaves the free list        *)
(* unchanged, and in every reachable state every element of the free     *)
(* list is an id smaller than the current buffer count                   *)
C36_ReuseOutOfPoolIgnored ==
    [][\A p \in ModelPorts :
          /\ (/\ last'.op = "port_reuse_buffer"
              /\ last'.port = p
              /\ last'.n >= d.ports[p].n_buffers)
             => /\ d'.ports[p].lk = d.ports[p].lk
                /\ FreeList(d'.ports[p]) = FreeList(d.ports[p])
          /\ \A e \in Range(FreeList(d'.ports[p])) : e < d'.ports[p].n_buffers]_vars

(* C37: every port-addressed operation (port_set_io, port_enum_params,   *)
(* port_set_param, port_use_buffers, port_reuse_buffer) called with a    *)
(* port id >= n_ports returns the invalid-argument error, emits no       *)
(* result and no info notification, and leaves the state of every port   *)
(* and of the node unchanged                                             *)
C37_InvalidPortRejected ==
    [][(/\ last'.op \in {"port_set_io", "port_enum_params", "port_set_param",
                         "port_use_buffers", "port_reuse_buffer"}
        /\ last'.port >= d.n_ports)
       => /\ last'.ret = "-EINVAL"
          /\ out' = <<>>
          /\ d' = d
          /\ pc' = pc]_vars

(* C37 witness: a port_set_param on port id 16 has been refused while    *)
(* port 0 holds a committed format, a bound mailbox and a buffer         *)
C37_Witness ==
    /\ last.op = "port_set_param"
    /\ last.port = MAX_PORTS
    /\ last.ret = "-EINVAL"
    /\ out = <<>>
    /\ Committed(d.ports[0])
    /\ d.ports[0].io.bound
    /\ d.ports[0].n_buffers = 1

C39_FullEmissionKeepsMasks ==
    [][(last'.op = "add_listener")
       => /\ d'.info_change_mask = d.info_change_mask
          /\ \A n \in PortIds : d'.ports[n].change_mask = d.ports[n].change_mask
          /\ d'.change_mask_all = d.change_mask_all
          /\ d'.port_change_mask_all = d.port_change_mask_all]_vars

(* C39 witness: add_listener has emitted the node info and the port      *)
(* infos in full while the stored masks were zero, and they are zero     *)
(* after it                                                              *)
C39_Witness ==
    /\ last.op = "add_listener"
    /\ Notes(out, "info", -1) # {}
    /\ \A p \in ModelPorts : Notes(out, "port_info", p) # {}
    /\ \A i \in 1 .. Len(out) : out[i].mask # {}
    /\ d.info_change_mask = {}
    /\ \A n \in PortIds : d.ports[n].change_mask = {}

(* what an emission does to a table: with the params facet in the mask   *)
(* it emits, every descriptor ends with user count 0 and a descriptor's   *)
(* serial bit is flipped exactly if its user count was greater than 0;   *)
(* without the params facet the table is unchanged                       *)
TableAfterEmission(before, after, mask, facet) ==
    IF (mask \cap facet) # {}
    THEN \A i \in DOMAIN before :
            /\ after[i].user = 0
            /\ ((i \in SerialSet(after)) # (i \in SerialSet(before)))
                  <=> (before[i].user > 0)
            /\ after[i].id = before[i].id
    ELSE after = before

====
